---------------------------- MODULE Spec2Model ----------------------------
(***************************************************************************)
(* Access control and data masking of the mcp-postgresql server.           *)
(*                                                                         *)
(* Strings the code inspects character by character (SQL text, command     *)
(* words, column and table names) are sequences of one-character strings,  *)
(* so that comment stripping, trimming, splitting and case conversion are  *)
(* computed as the code computes them.                                     *)
(*                                                                         *)
(* Three specifications share the variables:                               *)
(*   SpecPolicy  the classifier and the access-level decision              *)
(*               (getSqlCommand, isQueryAllowed) applied to one statement  *)
(*   SpecFilter  the masking and visibility filters (maskSensitiveData,    *)
(*               filterTables) applied to one result set held in a heap    *)
(*   Spec        the request handlers of the server (the query, schema and *)
(*               tables tools) and the connection pool they share          *)
(***************************************************************************)
EXTENDS Integers, Sequences, FiniteSets, TLC

(***************************************************************************)
(* Characters and the string primitives of the JavaScript runtime.         *)
(***************************************************************************)
LowerLetters ==
  <<"a", "b", "c", "d", "e", "f", "g", "h", "i", "j", "k", "l", "m",
    "n", "o", "p", "q", "r", "s", "t", "u", "v", "w", "x", "y", "z">>

UpperLetters ==
  <<"A", "B", "C", "D", "E", "F", "G", "H", "I", "J", "K", "L", "M",
    "N", "O", "P", "Q", "R", "S", "T", "U", "V", "W", "X", "Y", "Z">>

\* \s of the regular expressions and of trim(), over the characters used here
WhiteSpace == {" ", "\t", "\n", "\r"}

\* the characters "." does not match and before which "$" matches under /m
LineTerminators == {"\n", "\r"}

Min(S) == CHOOSE x \in S : \A y \in S : x <= y

Max(S) == CHOOSE x \in S : \A y \in S : x >= y

UpperChar(c) ==
  IF \E i \in 1..26 : LowerLetters[i] = c
  THEN UpperLetters[CHOOSE i \in 1..26 : LowerLetters[i] = c]
  ELSE c

LowerChar(c) ==
  IF \E i \in 1..26 : UpperLetters[i] = c
  THEN LowerLetters[CHOOSE i \in 1..26 : UpperLetters[i] = c]
  ELSE c

toUpperCase(s) == [i \in 1..Len(s) |-> UpperChar(s[i])]

toLowerCase(s) == [i \in 1..Len(s) |-> LowerChar(s[i])]

trim(s) ==
  LET keep == {i \in 1..Len(s) : s[i] \notin WhiteSpace}
  IN  IF keep = {} THEN <<>> ELSE SubSeq(s, Min(keep), Max(keep))

\* s.split(/\s+/): the pieces between maximal runs of white space
RECURSIVE SplitWhiteSpace(_)
SplitWhiteSpace(s) ==
  LET ws == {i \in 1..Len(s) : s[i] \in WhiteSpace}
  IN  IF ws = {} THEN <<s>>
      ELSE LET i    == Min(ws)
               rest == {j \in (i + 1)..Len(s) : s[j] \notin WhiteSpace}
           IN  <<SubSeq(s, 1, i - 1)>> \o
               SplitWhiteSpace(IF rest = {} THEN <<>>
                               ELSE SubSeq(s, Min(rest), Len(s)))

\* s.replace(/--.*$/gm, ''): from each "--" to the end of its line
RECURSIVE RemoveLineComments(_)
RemoveLineComments(s) ==
  IF s = <<>> THEN <<>>
  ELSE IF Len(s) >= 2 /\ s[1] = "-" /\ s[2] = "-"
       THEN LET ends == {i \in 1..Len(s) : s[i] \in LineTerminators}
            IN  IF ends = {} THEN <<>>
                ELSE RemoveLineComments(SubSeq(s, Min(ends), Len(s)))
       ELSE <<s[1]>> \o RemoveLineComments(Tail(s))

\* s.replace(/\/\*[\s\S]*?\*\//g, ''): from each "/*" to the nearest "*/";
\* a "/*" that is never closed does not match and stays
RECURSIVE RemoveBlockComments(_)
RemoveBlockComments(s) ==
  IF s = <<>> THEN <<>>
  ELSE LET closers == {j \in 3..(Len(s) - 1) : s[j] = "*" /\ s[j + 1] = "/"}
       IN  IF Len(s) >= 2 /\ s[1] = "/" /\ s[2] = "*" /\ closers # {}
           THEN RemoveBlockComments(SubSeq(s, Min(closers) + 2, Len(s)))
           ELSE <<s[1]>> \o RemoveBlockComments(Tail(s))

\* Array.prototype.includes on a sequence
Includes(list, x) == \E i \in 1..Len(list) : list[i] = x

(***************************************************************************)
(* The command vocabulary.                                                 *)
(***************************************************************************)
kwSELECT == <<"S", "E", "L", "E", "C", "T">>

kwINSERT == <<"I", "N", "S", "E", "R", "T">>

kwUPDATE == <<"U", "P", "D", "A", "T", "E">>

kwDELETE == <<"D", "E", "L", "E", "T", "E">>

kwCREATE == <<"C", "R", "E", "A", "T", "E">>

kwDROP == <<"D", "R", "O", "P">>

kwALTER == <<"A", "L", "T", "E", "R">>

kwTRUNCATE == <<"T", "R", "U", "N", "C", "A", "T", "E">>

kwGRANT == <<"G", "R", "A", "N", "T">>

kwREVOKE == <<"R", "E", "V", "O", "K", "E">>

kwBEGIN == <<"B", "E", "G", "I", "N">>

kwCOMMIT == <<"C", "O", "M", "M", "I", "T">>

kwROLLBACK == <<"R", "O", "L", "L", "B", "A", "C", "K">>

kwEXPLAIN == <<"E", "X", "P", "L", "A", "I", "N">>

kwANALYZE == <<"A", "N", "A", "L", "Y", "Z", "E">>

kwVACUUM == <<"V", "A", "C", "U", "U", "M">>

kwCOPY == <<"C", "O", "P", "Y">>

kwWITH == <<"W", "I", "T", "H">>

kwUNKNOWN == <<"U", "N", "K", "N", "O", "W", "N">>

\* the list getSqlCommand recognises
commands ==
  <<kwSELECT, kwINSERT, kwUPDATE, kwDELETE, kwCREATE, kwDROP, kwALTER,
    kwTRUNCATE, kwGRANT, kwREVOKE, kwBEGIN, kwCOMMIT, kwROLLBACK, kwEXPLAIN,
    kwANALYZE, kwVACUUM, kwCOPY>>

\* a bug: the text classified as written, not upper-cased
getSqlCommand_CaseSensitive(sqlText) ==
  LET cleanSql  == trim(RemoveBlockComments(RemoveLineComments(sqlText)))
      words     == SplitWhiteSpace(cleanSql)
      firstWord == words[1]
  IN  IF firstWord # <<>> /\ Includes(commands, firstWord)
      THEN firstWord
      ELSE kwUNKNOWN

getSqlCommand(sqlText) ==
  LET cleanSql  == toUpperCase(trim(RemoveBlockComments(RemoveLineComments(sqlText))))
      words     == SplitWhiteSpace(cleanSql)
      firstWord == words[1]
  IN  IF firstWord # <<>> /\ Includes(commands, firstWord)
      THEN firstWord
      ELSE kwUNKNOWN

(***************************************************************************)
(* Access levels.                                                          *)
(***************************************************************************)
\* a bug: readonly given the command list of modify
QUERY_LEVELS_ReadonlyAsModify ==
  [readonly |-> <<kwSELECT, kwINSERT, kwUPDATE, kwDELETE, kwWITH>>,
   modify   |-> <<kwSELECT, kwINSERT, kwUPDATE, kwDELETE, kwWITH>>,
   ddl      |-> <<kwSELECT, kwINSERT, kwUPDATE, kwDELETE, kwCREATE, kwDROP,
                  kwALTER, kwTRUNCATE, kwWITH>>,
   custom   |-> <<>>]

\* custom is the empty list: nothing in the sources ever fills it in
QUERY_LEVELS ==
  [readonly |-> <<kwSELECT, kwWITH>>,
   modify   |-> <<kwSELECT, kwINSERT, kwUPDATE, kwDELETE, kwWITH>>,
   ddl      |-> <<kwSELECT, kwINSERT, kwUPDATE, kwDELETE, kwCREATE, kwDROP,
                  kwALTER, kwTRUNCATE, kwWITH>>,
   custom   |-> <<>>]

\* names every object inherits from Object.prototype (some of them):
\* QUERY_LEVELS[name] is then a function or an object, not undefined
ObjectPrototypeKeys ==
  {"constructor", "toString", "valueOf", "hasOwnProperty", "__proto__"}

\* QUERY_LEVELS[config.queryLevel] || QUERY_LEVELS.readonly: an array, even an
\* empty one, is truthy, and so is an inherited property; only a name the
\* object has no property for gives undefined and falls back to readonly
LevelCommands(cfg) ==
  IF cfg.queryLevel \in DOMAIN QUERY_LEVELS
  THEN [isArray |-> TRUE, items |-> QUERY_LEVELS[cfg.queryLevel]]
  ELSE IF cfg.queryLevel \in ObjectPrototypeKeys
       THEN [isArray |-> FALSE, items |-> <<>>]
       ELSE [isArray |-> TRUE, items |-> QUERY_LEVELS.readonly]

\* allowedCommands.includes(command) on a value that is no array: TypeError,
\* "allowedCommands.includes is not a function"
isQueryAllowedThrows(cfg) == ~LevelCommands(cfg).isArray

\* what isQueryAllowed returns; FALSE stands for no value when it throws
isQueryAllowed(sqlText, cfg) ==
  LET command == getSqlCommand(sqlText)
      allowedCommands == LevelCommands(cfg)
  IN  allowedCommands.isArray /\ Includes(allowedCommands.items, command)

(***************************************************************************)
(* Configuration.                                                          *)
(***************************************************************************)
\* the built-in names whose values are masked
defaultSensitiveFields ==
  { <<"p", "a", "s", "s", "w", "o", "r", "d">>,
    <<"p", "a", "s", "s", "w", "d">>,
    <<"p", "w", "d">>,
    <<"s", "e", "c", "r", "e", "t">>,
    <<"t", "o", "k", "e", "n">>,
    <<"a", "p", "i", "_", "k", "e", "y">>,
    <<"a", "p", "i", "k", "e", "y">>,
    <<"p", "r", "i", "v", "a", "t", "e", "_", "k", "e", "y">>,
    <<"p", "r", "i", "v", "a", "t", "e", "k", "e", "y">>,
    <<"c", "r", "e", "d", "i", "t", "_", "c", "a", "r", "d">>,
    <<"c", "r", "e", "d", "i", "t", "c", "a", "r", "d">>,
    <<"c", "a", "r", "d", "_", "n", "u", "m", "b", "e", "r">>,
    <<"c", "a", "r", "d", "n", "u", "m", "b", "e", "r">>,
    <<"s", "s", "n">>,
    <<"s", "o", "c", "i", "a", "l", "_", "s", "e", "c", "u", "r", "i", "t", "y">>,
    <<"t", "a", "x", "_", "i", "d">> }

\* the elements of a list, as a Set built from an array
SetOf(list) == {list[i] : i \in 1..Len(list)}

\* env holds each variable after split(','): a list of pieces; the query
\* level is "" when the variable is not set
createConfig(env) ==
  [url |-> env.POSTGRES_URL,
   queryLevel |->
     IF env.POSTGRES_QUERY_LEVEL = "" THEN "readonly" ELSE env.POSTGRES_QUERY_LEVEL,
   allowedCommands |->
     [i \in 1..Len(env.POSTGRES_ALLOWED_COMMANDS) |->
        toUpperCase(trim(env.POSTGRES_ALLOWED_COMMANDS[i]))],
   dataMasking |->
     [enabled       |-> env.POSTGRES_DATA_MASKING # "false",
      hiddenTables  |-> {toLowerCase(trim(t)) : t \in SetOf(env.POSTGRES_HIDDEN_TABLES)},
      hiddenColumns |-> {toLowerCase(trim(c)) : c \in SetOf(env.POSTGRES_HIDDEN_COLUMNS)},
      defaultSensitiveFields |-> defaultSensitiveFields,
      customSensitiveFields  |->
        {toLowerCase(trim(f)) : f \in SetOf(env.POSTGRES_SENSITIVE_FIELDS)}]]

\* the environment when nothing but the connection is configured
DefaultEnv ==
  [POSTGRES_URL              |-> "",
   POSTGRES_QUERY_LEVEL      |-> "",
   POSTGRES_ALLOWED_COMMANDS |-> <<>>,
   POSTGRES_DATA_MASKING     |-> "true",
   POSTGRES_HIDDEN_TABLES    |-> <<>>,
   POSTGRES_HIDDEN_COLUMNS   |-> <<>>,
   POSTGRES_SENSITIVE_FIELDS |-> <<>>]

(***************************************************************************)
(* Objects.  Arrays and row objects live in a heap and are passed by       *)
(* reference; a reference is a positive number, 0 is no reference.  A row  *)
(* object maps the names of its keys to values; a field descriptor, a      *)
(* table entry and a column-metadata entry are never written and are kept  *)
(* as values inside their array.                                           *)
(***************************************************************************)
\* the values of a row: JavaScript's null and undefined, and data
Null == "null"

Undefined == "undefined"

MaskMarker == "***"

EmptyHeap == [rowObjs |-> <<>>, rowArrays |-> <<>>, fieldArrays |-> <<>>, metaArrays |-> <<>>]

UsedRefs(h) ==
  DOMAIN h.rowObjs \cup DOMAIN h.rowArrays \cup DOMAIN h.fieldArrays \cup DOMAIN h.metaArrays

\* the reference the next allocation gets
NextRef(h) == 1 + Max(UsedRefs(h) \cup {0})

\* row[name]: undefined when the row has no such key
ReadProp(row, name) == IF name \in DOMAIN row THEN row[name] ELSE Undefined

\* Array.prototype.filter: the entries passing keep, in order
RECURSIVE Filter(_, _)
Filter(list, keep) ==
  IF list = <<>> THEN <<>>
  ELSE (IF Head(list) \in keep THEN <<Head(list)>> ELSE <<>>) \o Filter(Tail(list), keep)

(***************************************************************************)
(* sql-filter: hidden tables and columns, sensitive fields, masking.       *)
(***************************************************************************)
\* a bug: the name compared as written, not lower-cased
isTableHidden_CaseSensitive(tableName, cfg) ==
  IF ~cfg.dataMasking.enabled THEN FALSE
  ELSE tableName \in cfg.dataMasking.hiddenTables

isTableHidden(tableName, cfg) ==
  IF ~cfg.dataMasking.enabled THEN FALSE
  ELSE toLowerCase(tableName) \in cfg.dataMasking.hiddenTables

\* a bug: the name compared as written, not lower-cased
isColumnHidden_CaseSensitive(columnName, cfg) ==
  IF ~cfg.dataMasking.enabled THEN FALSE
  ELSE columnName \in cfg.dataMasking.hiddenColumns

isColumnHidden(columnName, cfg) ==
  IF ~cfg.dataMasking.enabled THEN FALSE
  ELSE toLowerCase(columnName) \in cfg.dataMasking.hiddenColumns

isSensitiveField(fieldName, cfg) ==
  IF ~cfg.dataMasking.enabled THEN FALSE
  ELSE LET lowerField == toLowerCase(fieldName)
       IN  \/ lowerField \in cfg.dataMasking.defaultSensitiveFields
           \/ lowerField \in cfg.dataMasking.customSensitiveFields

\* a bug: null masked like any other value
MaskedValue_MasksNull(value, sensitive) ==
  IF sensitive /\ value # Undefined THEN MaskMarker ELSE value

\* the value stored for one visible field of one row
MaskedValue(value, sensitive) ==
  IF sensitive /\ value # Null /\ value # Undefined THEN MaskMarker ELSE value

\* a bug: the new row keyed by the lower-cased names
ProcessRow_LowerCaseKeys(row, fieldNames, fieldVisibility, sensitiveFieldNames) ==
  LET shown == {fieldNames[i] : i \in {j \in 1..Len(fieldNames) : fieldVisibility[j]}}
  IN  [lowered \in {toLowerCase(n) : n \in shown} |->
         LET name == CHOOSE n \in shown : toLowerCase(n) = lowered
         IN  MaskedValue(ReadProp(row, name), name \in sensitiveFieldNames)]

\* the body of rows.map: a new object with one key per visible field
ProcessRow(row, fieldNames, fieldVisibility, sensitiveFieldNames) ==
  LET shown == {fieldNames[i] : i \in {j \in 1..Len(fieldNames) : fieldVisibility[j]}}
  IN  [name \in shown |->
         MaskedValue(ReadProp(row, name), name \in sensitiveFieldNames)]

\* a bug: the test for "every field visible" compares with 0
ReturnsOriginal_NeverWhenFields(sensitiveFieldNames, visibleFields, fields) ==
  sensitiveFieldNames = {} /\ Len(visibleFields) = 0

\* the early return after the pass over the fields
ReturnsOriginal(sensitiveFieldNames, visibleFields, fields) ==
  sensitiveFieldNames = {} /\ Len(visibleFields) = Len(fields)

\* a bug: the rows and the field list rewritten in place
StoreProcessed_InPlace(h, rowsRef, fieldsRef, processed, visibleFields) ==
  LET rows == h.rowArrays[rowsRef]
  IN  [rows   |-> rowsRef,
       fields |-> fieldsRef,
       heap   |->
         [h EXCEPT
            !.rowObjs = [r \in DOMAIN h.rowObjs |->
                           IF \E k \in 1..Len(rows) : rows[k] = r
                           THEN processed[CHOOSE k \in 1..Len(rows) : rows[k] = r]
                           ELSE h.rowObjs[r]],
            !.fieldArrays = [@ EXCEPT ![fieldsRef] = visibleFields]]]

\* rows.map builds a new array of new row objects; visibleFields is a new array
StoreProcessed(h, rowsRef, fieldsRef, processed, visibleFields) ==
  LET n       == Len(processed)
      newRows == NextRef(h)
      newFlds == newRows + n + 1
  IN  [rows   |-> newRows,
       fields |-> newFlds,
       heap   |->
         [h EXCEPT
            !.rowArrays   = @ @@ (newRows :> [k \in 1..n |-> newRows + k]),
            !.rowObjs     = @ @@ [r \in {newRows + k : k \in 1..n} |-> processed[r - newRows]],
            !.fieldArrays = @ @@ (newFlds :> visibleFields)]]

maskSensitiveData(rowsRef, fieldsRef, cfg, h) ==
  LET rows   == h.rowArrays[rowsRef]
      fields == h.fieldArrays[fieldsRef]
  IN  IF ~cfg.dataMasking.enabled \/ Len(rows) = 0
      THEN [rows |-> rowsRef, fields |-> fieldsRef, heap |-> h]
      ELSE
        LET fieldNames == [i \in 1..Len(fields) |-> fields[i].name]
            \* an entry without a name gets no visibility at all
            fieldVisibility ==
              [i \in 1..Len(fields) |->
                 fieldNames[i] # <<>> /\ ~isColumnHidden(fieldNames[i], cfg)]
            visibleIdx == {i \in 1..Len(fields) : fieldVisibility[i]}
            visibleFields ==
              Filter(fields, {fields[i] : i \in visibleIdx})
            sensitiveFieldNames ==
              {fieldNames[i] : i \in {j \in visibleIdx : isSensitiveField(fieldNames[j], cfg)}}
        IN  IF ReturnsOriginal(sensitiveFieldNames, visibleFields, fields)
            THEN [rows |-> rowsRef, fields |-> fieldsRef, heap |-> h]
            ELSE StoreProcessed(h, rowsRef, fieldsRef,
                   [k \in 1..Len(rows) |->
                      ProcessRow(h.rowObjs[rows[k]], fieldNames, fieldVisibility,
                                 sensitiveFieldNames)],
                   visibleFields)

\* a bug: the entries removed from the caller's array
filterTables_InPlace(tablesRef, cfg, h) ==
  LET tables == h.metaArrays[tablesRef]
      shown  == {tables[i] : i \in {j \in 1..Len(tables) :
                    toLowerCase(tables[j].table_name) \notin cfg.dataMasking.hiddenTables}}
  IN  IF ~cfg.dataMasking.enabled \/ Len(tables) = 0 \/ cfg.dataMasking.hiddenTables = {}
      THEN [ref |-> tablesRef, heap |-> h]
      ELSE [ref |-> tablesRef,
            heap |-> [h EXCEPT !.metaArrays = [@ EXCEPT ![tablesRef] = Filter(tables, shown)]]]

\* a bug: table_name compared as written, not lower-cased
filterTables_CaseSensitive(tablesRef, cfg, h) ==
  LET tables == h.metaArrays[tablesRef]
      shown  == {tables[i] : i \in {j \in 1..Len(tables) :
                    tables[j].table_name \notin cfg.dataMasking.hiddenTables}}
  IN  IF ~cfg.dataMasking.enabled \/ Len(tables) = 0 \/ cfg.dataMasking.hiddenTables = {}
      THEN [ref |-> tablesRef, heap |-> h]
      ELSE [ref |-> NextRef(h),
            heap |-> [h EXCEPT !.metaArrays = @ @@ (NextRef(h) :> Filter(tables, shown))]]

filterTables(tablesRef, cfg, h) ==
  LET tables == h.metaArrays[tablesRef]
      shown  == {tables[i] : i \in {j \in 1..Len(tables) :
                    toLowerCase(tables[j].table_name) \notin cfg.dataMasking.hiddenTables}}
  IN  IF ~cfg.dataMasking.enabled \/ Len(tables) = 0 \/ cfg.dataMasking.hiddenTables = {}
      THEN [ref |-> tablesRef, heap |-> h]
      ELSE [ref |-> NextRef(h),
            heap |-> [h EXCEPT !.metaArrays = @ @@ (NextRef(h) :> Filter(tables, shown))]]

(***************************************************************************)
(* The filters of getSchema, applied to the fetched column metadata.       *)
(***************************************************************************)
\* single-table mode: the table's columns without the hidden ones
visibleColumns(rowsRef, cfg, h) ==
  LET rows  == h.metaArrays[rowsRef]
      shown == {rows[i] : i \in {j \in 1..Len(rows) :
                   ~isColumnHidden(rows[j].column_name, cfg)}}
  IN  [ref |-> NextRef(h),
       heap |-> [h EXCEPT !.metaArrays = @ @@ (NextRef(h) :> Filter(rows, shown))]]

\* a bug: the rows of hidden tables kept
visibleSchema_ColumnsOnly(rowsRef, cfg, h) ==
  LET rows  == h.metaArrays[rowsRef]
      shown == {rows[i] : i \in {j \in 1..Len(rows) :
                   ~isColumnHidden(rows[j].column_name, cfg)}}
  IN  [ref |-> NextRef(h),
       heap |-> [h EXCEPT !.metaArrays = @ @@ (NextRef(h) :> Filter(rows, shown))]]

\* whole-database mode: no row of a hidden table, no hidden column
visibleSchema(rowsRef, cfg, h) ==
  LET rows  == h.metaArrays[rowsRef]
      shown == {rows[i] : i \in {j \in 1..Len(rows) :
                   /\ ~isTableHidden(rows[j].table_name, cfg)
                   /\ ~isColumnHidden(rows[j].column_name, cfg)}}
  IN  [ref |-> NextRef(h),
       heap |-> [h EXCEPT !.metaArrays = @ @@ (NextRef(h) :> Filter(rows, shown))]]

(***************************************************************************)
(* State.                                                                  *)
(***************************************************************************)
VARIABLES
  config,     \* the process-wide configuration, built once at start-up
  sql,        \* SpecPolicy: the statement under decision
  command,    \* SpecPolicy: what getSqlCommand returned for it
  allowed,    \* SpecPolicy: what isQueryAllowed returned for it
  raised,     \* SpecPolicy: whether isQueryAllowed threw instead of returning
  decided,    \* SpecPolicy: whether the decision has been taken
  heap,       \* the arrays and row objects, by reference
  argRows,    \* SpecFilter: the rows array given to maskSensitiveData
  argFields,  \* SpecFilter: the fields array given to maskSensitiveData
  maskCalls,  \* SpecFilter: how often maskSensitiveData has been applied
  maskRet,    \* SpecFilter: what the first application returned
  maskRet2,   \* SpecFilter: what its application to maskRet returned
  argMeta,    \* SpecFilter: the table or column list given to a filter
  metaKind,   \* SpecFilter: "tables", "columns" or "none"
  metaOp,     \* SpecFilter: the filter applied to argMeta, "none" before
  metaRet,    \* SpecFilter: the list that filter returned
  pool,       \* database.ts: the pool, NoPool until getPool constructs one
  poolsCreated,       \* Spec: how many Pools have been constructed
  createdSinceReset,  \* Spec: how many of them since the last resetPool
  returnedSinceReset, \* Spec: the Pools getPool has returned since then
  checkedOut, \* Spec: the clients obtained from the pool and not released
  pc,         \* Spec: where each request handler stands
  tool,       \* Spec: the tool of the handler's request
  reqSql,     \* Spec: the statement of the handler's request
  reqTable,   \* Spec: the table argument of a schema request, <<>> if none
  reqAllowed, \* Spec: what isQueryAllowed returned in this execution
  acquired,   \* Spec: whether this execution obtained a client from the pool
  held,       \* Spec: whether the handler holds a client not yet released
  released,   \* Spec: how often this execution released its client
  sent,       \* Spec: whether this execution sent its statement to the database
  dbReply,    \* Spec: what the database answered in this execution
  dbExecuted, \* Spec: the statements the database has been given so far
  result      \* Spec: what the handler returns to the caller

policyVars == <<sql, command, allowed, raised, decided>>

filterVars ==
  <<heap, argRows, argFields, maskCalls, maskRet, maskRet2, argMeta, metaKind, metaOp, metaRet>>

handlerVars ==
  <<pool, poolsCreated, createdSinceReset, returnedSinceReset, checkedOut, pc, tool,
    reqSql, reqTable, reqAllowed, acquired, held, released, sent, dbReply, dbExecuted,
    result>>

vars == <<config, policyVars, filterVars, handlerVars>>

NoRet == [rows |-> 0, fields |-> 0]

\* let pool: PoolType | null = null
NoPool == [id |-> 0, connectionString |-> ""]

\* the values the variables of a specification have in the other ones
PolicyIdle ==
  sql = <<>> /\ command = <<>> /\ allowed = FALSE /\ raised = FALSE /\ decided = FALSE

FilterIdle ==
  /\ heap = EmptyHeap
  /\ argRows = 0 /\ argFields = 0
  /\ maskCalls = 0 /\ maskRet = NoRet /\ maskRet2 = NoRet
  /\ argMeta = 0 /\ metaKind = "none" /\ metaOp = "none" /\ metaRet = 0

HandlerIdle ==
  /\ pool = NoPool
  /\ poolsCreated = 0 /\ createdSinceReset = 0 /\ returnedSinceReset = {}
  /\ checkedOut = 0
  /\ pc = <<>> /\ tool = <<>> /\ reqSql = <<>> /\ reqTable = <<>> /\ reqAllowed = <<>>
  /\ acquired = <<>> /\ held = <<>> /\ released = <<>> /\ sent = <<>> /\ dbReply = <<>>
  /\ dbExecuted = {}
  /\ result = <<>>

(***************************************************************************)
(* SpecPolicy: one statement, classified and decided.                      *)
(***************************************************************************)
\* the statements of the documented examples
SqlSelectStarFromT == kwSELECT \o <<" ", "*", " ", "F", "R", "O", "M", " ", "t">>

SqlDeleteFromT == kwDELETE \o <<" ", "F", "R", "O", "M", " ", "t">>

SqlExplainAnalyzeT == kwEXPLAIN \o <<" ", "A", "N", "A", "L", "Y", "Z", "E", " ", "t">>

SqlInsertIntoT ==
  kwINSERT \o <<" ", "I", "N", "T", "O", " ", "t", " ", "V", "A", "L", "U", "E", "S", " ", "(", "1", ")">>

SqlCommentedSelect ==
  <<"-", "-", " ", "x", "\n">> \o toLowerCase(kwSELECT) \o <<" ", "1">>

\* text in front of the leading keyword
SqlPrefixes ==
  { <<>>,
    <<" ", " ">>,
    <<"\n", "\t">>,
    <<"-", "-", " ", "x", "\n">>,
    <<"/", "*", " ", "c", " ", "*", "/">>,
    <<"/", "*", " ", "a", "\n", "b", " ", "*", "/", " ">>,
    <<"/", "*", " ", "-", "-", " ", "*", "/", " ">>,
    <<"/", "*", " ", "o", "p", "e", "n", " ">>,
    <<"-", "-", " ">> }

\* leading words: the vocabulary, WITH, a word that only starts like a
\* command, the sentinel's own spelling, and no word at all
SqlLeadingWords ==
  SetOf(commands) \cup {kwWITH, kwUNKNOWN, <<"S", "E", "L", "E", "C", "T", "E", "D">>, <<>>}

MixedCase(w) == [i \in 1..Len(w) |-> IF i % 2 = 0 THEN LowerChar(w[i]) ELSE w[i]]

\* text after the leading keyword
SqlRests ==
  { <<>>,
    <<" ", "1">>,
    <<" ", "*", " ", "F", "R", "O", "M", " ", "t">>,
    <<" ", "F", "R", "O", "M", " ", "t">>,
    <<" ", "A", "N", "A", "L", "Y", "Z", "E", " ", "t">>,
    <<" ", "I", "N", "T", "O", " ", "t", " ", "V", "A", "L", "U", "E", "S", " ", "(", "1", ")">>,
    <<"\n", "t">>,
    <<";">>,
    <<"/", "*", " ", "c", " ", "*", "/", "t">>,
    <<"-", "-", "t">> }

SqlInputs ==
  {p \o w \o r : p \in SqlPrefixes,
                 w \in UNION {{k, toLowerCase(k), MixedCase(k)} : k \in SqlLeadingWords},
                 r \in SqlRests}

PolicyLevels == {"", "readonly", "modify", "ddl", "custom", "admin", "constructor"}

PolicyAllowedCommands ==
  { <<>>,
    << <<"s", "e", "l", "e", "c", "t">>, <<" ", "e", "x", "p", "l", "a", "i", "n", " ">> >>,
    << kwUNKNOWN, kwWITH >> }

PolicyEnvs ==
  {[DefaultEnv EXCEPT !.POSTGRES_QUERY_LEVEL = l, !.POSTGRES_ALLOWED_COMMANDS = a] :
     l \in PolicyLevels, a \in PolicyAllowedCommands}

InitPolicy ==
  /\ config \in {createConfig(e) : e \in PolicyEnvs}
  /\ sql \in SqlInputs
  /\ command = <<>>
  /\ allowed = FALSE
  /\ raised = FALSE
  /\ decided = FALSE
  /\ FilterIdle
  /\ HandlerIdle

\* the decision of executeQuery's first line, taken on the statement
Decide ==
  /\ ~decided
  /\ command' = getSqlCommand(sql)
  /\ allowed' = isQueryAllowed(sql, config)
  /\ raised' = isQueryAllowedThrows(config)
  /\ decided' = TRUE
  /\ UNCHANGED <<config, sql, filterVars, handlerVars>>

NextPolicy == Decide

SpecPolicy == InitPolicy /\ [][NextPolicy]_vars

(***************************************************************************)
(* SpecFilter: one result set masked (and masked again), or one table or   *)
(* column list filtered.                                                   *)
(***************************************************************************)
MaxFields == 2

MaxRows == 2

MaxTables == 2

MaxColumns == 2

nId == <<"i", "d">>

nPassword == <<"p", "a", "s", "s", "w", "o", "r", "d">>

nPasswordCap == <<"P", "a", "s", "s", "w", "o", "r", "d">>

nInternalId == <<"i", "n", "t", "e", "r", "n", "a", "l", "_", "i", "d">>

nInternalIdCap == <<"I", "n", "t", "e", "r", "n", "a", "l", "_", "I", "D">>

nNote == <<"n", "o", "t", "e">>

nEmail == <<"e", "m", "a", "i", "l">>

\* a descriptor without a name
nMissing == <<>>

tUsers == <<"u", "s", "e", "r", "s">>

tSecretTable == <<"s", "e", "c", "r", "e", "t", "_", "t", "a", "b", "l", "e">>

tSecretTableCap == <<"S", "E", "C", "R", "E", "T", "_", "T", "A", "B", "L", "E">>

tInternalLogs == <<"i", "n", "t", "e", "r", "n", "a", "l", "_", "l", "o", "g", "s">>

SeqsUpTo(S, n) == UNION {[1..k -> S] : k \in 0..n}

FieldDescriptors ==
  {[name |-> n, dataTypeID |-> 25] :
     n \in {nId, nPassword, nPasswordCap, nInternalId, nNote, nEmail, nMissing}}

\* what a cell of a result row may hold: data, null, or no key at all
Absent == "absent"

\* "1" stands for the number 1
CellKinds == <<"1", "hunter2", Null, Absent>>

\* the row of pattern p for a field list: the cell of field i is kind i + p,
\* and of two fields with one name the later one wins
RowOfPattern(fields, p) ==
  LET cell(i)  == CellKinds[((i + p) % Len(CellKinds)) + 1]
      present  == {i \in 1..Len(fields) : cell(i) # Absent}
  IN  [n \in {fields[i].name : i \in present} |->
         cell(Max({i \in present : fields[i].name = n}))]

\* the heap holding a result set: the fields array, the rows array, the rows
ResultHeap(fields, patterns) ==
  [EmptyHeap EXCEPT
     !.fieldArrays = (1 :> fields),
     !.rowArrays   = (2 :> [k \in 1..Len(patterns) |-> 2 + k]),
     !.rowObjs     = [r \in {2 + k : k \in 1..Len(patterns)} |->
                        RowOfPattern(fields, patterns[r - 2])]]

MaskEnvs ==
  {[DefaultEnv EXCEPT !.POSTGRES_HIDDEN_COLUMNS = e[1],
                      !.POSTGRES_SENSITIVE_FIELDS = e[2]] :
     e \in {<< <<>>, <<>> >>,
            << <<nInternalIdCap>>, <<>> >>,
            << <<>>, << <<" ">> \o toUpperCase(nNote) >> >>,
            << <<toUpperCase(nPassword), nInternalId>>, << <<" ">> \o toUpperCase(nNote) >> >>}}
  \cup
  {[DefaultEnv EXCEPT !.POSTGRES_DATA_MASKING = "false",
                      !.POSTGRES_HIDDEN_COLUMNS = <<nInternalId>>]}

TableEntries ==
  {[table_schema |-> "public", table_name |-> n, table_type |-> "BASE TABLE"] :
     n \in {tUsers, tSecretTable, tSecretTableCap, tInternalLogs}}

ColumnEntries ==
  {[table_schema |-> "public", table_name |-> t, column_name |-> c] :
     t \in {tUsers, tSecretTableCap}, c \in {nId, nInternalIdCap, nPassword}}

MetaEnvs ==
  {[DefaultEnv EXCEPT !.POSTGRES_DATA_MASKING = e,
                      !.POSTGRES_HIDDEN_TABLES = t,
                      !.POSTGRES_HIDDEN_COLUMNS = c] :
     e \in {"true", "false"},
     t \in {<<>>, <<tSecretTable>>, << <<" ">> \o tSecretTableCap, tInternalLogs >>},
     c \in {<<>>, <<nInternalId>>}}

InitMask ==
  /\ config \in {createConfig(e) : e \in MaskEnvs}
  /\ \E fields \in SeqsUpTo(FieldDescriptors, MaxFields) :
       \E patterns \in SeqsUpTo(0..(Len(CellKinds) - 1), MaxRows) :
         heap = ResultHeap(fields, patterns)
  /\ argFields = 1 /\ argRows = 2
  /\ argMeta = 0 /\ metaKind = "none"

InitMeta ==
  /\ config \in {createConfig(e) : e \in MetaEnvs}
  /\ \/ /\ metaKind = "tables"
        /\ \E tables \in SeqsUpTo(TableEntries, MaxTables) :
             heap = [EmptyHeap EXCEPT !.metaArrays = (1 :> tables)]
     \/ /\ metaKind = "columns"
        /\ \E columns \in SeqsUpTo(ColumnEntries, MaxColumns) :
             heap = [EmptyHeap EXCEPT !.metaArrays = (1 :> columns)]
  /\ argMeta = 1
  /\ argFields = 0 /\ argRows = 0

InitFilter ==
  /\ PolicyIdle
  /\ HandlerIdle
  /\ InitMask \/ InitMeta
  /\ maskCalls = 0 /\ maskRet = NoRet /\ maskRet2 = NoRet
  /\ metaOp = "none" /\ metaRet = 0

\* executeQuery's call of maskSensitiveData on the result of the database
MaskCall ==
  /\ argRows # 0 /\ maskCalls = 0
  /\ LET r == maskSensitiveData(argRows, argFields, config, heap)
     IN  /\ heap' = r.heap
         /\ maskRet' = [rows |-> r.rows, fields |-> r.fields]
  /\ maskCalls' = 1
  /\ UNCHANGED <<config, policyVars, handlerVars, argRows, argFields, maskRet2, argMeta, metaKind, metaOp, metaRet>>

\* maskSensitiveData applied to what it returned
MaskAgain ==
  /\ maskCalls = 1
  /\ LET r == maskSensitiveData(maskRet.rows, maskRet.fields, config, heap)
     IN  /\ heap' = r.heap
         /\ maskRet2' = [rows |-> r.rows, fields |-> r.fields]
  /\ maskCalls' = 2
  /\ UNCHANGED <<config, policyVars, handlerVars, argRows, argFields, maskRet, argMeta, metaKind, metaOp, metaRet>>

\* getTables' call of filterTables on the fetched table list
FilterTablesCall ==
  /\ metaKind = "tables" /\ metaOp = "none"
  /\ LET r == filterTables(argMeta, config, heap)
     IN  heap' = r.heap /\ metaRet' = r.ref
  /\ metaOp' = "filterTables"
  /\ UNCHANGED <<config, policyVars, handlerVars, argRows, argFields, maskCalls, maskRet, maskRet2, argMeta, metaKind>>

\* getSchema's filter of one table's columns
VisibleColumnsCall ==
  /\ metaKind = "columns" /\ metaOp = "none"
  /\ LET r == visibleColumns(argMeta, config, heap)
     IN  heap' = r.heap /\ metaRet' = r.ref
  /\ metaOp' = "visibleColumns"
  /\ UNCHANGED <<config, policyVars, handlerVars, argRows, argFields, maskCalls, maskRet, maskRet2, argMeta, metaKind>>

\* getSchema's filter of the columns of the whole database
VisibleSchemaCall ==
  /\ metaKind = "columns" /\ metaOp = "none"
  /\ LET r == visibleSchema(argMeta, config, heap)
     IN  heap' = r.heap /\ metaRet' = r.ref
  /\ metaOp' = "visibleSchema"
  /\ UNCHANGED <<config, policyVars, handlerVars, argRows, argFields, maskCalls, maskRet, maskRet2, argMeta, metaKind>>

NextFilter ==
  \/ MaskCall
  \/ MaskAgain
  \/ FilterTablesCall
  \/ VisibleColumnsCall
  \/ VisibleSchemaCall

SpecFilter == InitFilter /\ [][NextFilter]_vars

(***************************************************************************)
(* Spec: the request handlers.  A handler runs from one await to the next  *)
(* without interruption; between awaits the handlers of other requests     *)
(* run.                                                                    *)
(***************************************************************************)
NumHandlers == 2

MaxPools == 2

Handlers == 1..NumHandlers

\* line 26 of executeQuery: the statement is refused when it is not allowed
RefusesQuery_Never(isAllowed) == FALSE

RefusesQuery(isAllowed) == ~isAllowed

\* a bug: a Pool constructed by every call
getPool_AlwaysNew(p, cfg, fresh) == [id |-> fresh, connectionString |-> cfg.url]

\* getPool: the Pool is constructed by the first call, from the config of
\* that call, and kept; fresh is the identity a new Pool gets
getPool(p, cfg, fresh) ==
  IF p = NoPool THEN [id |-> fresh, connectionString |-> cfg.url] ELSE p

resetPool(p) == NoPool

\* a bug: the client kept
release_Never(n) == n

\* client.release(): n counts the releases of the client
release(n) == n + 1

NoResult == [kind |-> "none"]

NoReply == [kind |-> "none"]

\* the sql arguments of the query tool; the empty one is refused as invalid
HandlerSql == {SqlSelectStarFromT, SqlDeleteFromT, SqlExplainAnalyzeT, <<>>}

\* the table arguments of the schema tool; the empty one is no table
HandlerTables == {<<>>, tUsers, tSecretTableCap}

\* the environments of the server: secret_table and internal_id are hidden
HandlerEnvs ==
  {[DefaultEnv EXCEPT !.POSTGRES_QUERY_LEVEL = e[1],
                      !.POSTGRES_ALLOWED_COMMANDS = e[2],
                      !.POSTGRES_DATA_MASKING = e[3],
                      !.POSTGRES_HIDDEN_TABLES = <<tSecretTable>>,
                      !.POSTGRES_HIDDEN_COLUMNS = <<nInternalId>>] :
     e \in {<<"readonly", <<>>, "true">>,
            <<"ddl", <<kwSELECT, kwEXPLAIN>>, "true">>,
            <<"custom", <<kwSELECT, kwEXPLAIN>>, "true">>,
            <<"constructor", <<>>, "true">>,
            <<"", <<>>, "false">>}}

\* what the database may answer to a statement: fields and rows
DbResults ==
  {[fields   |-> <<[name |-> nId, dataTypeID |-> 25], [name |-> nPassword, dataTypeID |-> 25]>>,
    patterns |-> <<3>>],
   [fields   |-> <<[name |-> nInternalId, dataTypeID |-> 25]>>,
    patterns |-> <<>>],
   [fields   |-> <<[name |-> nId, dataTypeID |-> 25], [name |-> nInternalId, dataTypeID |-> 25]>>,
    patterns |-> <<3, 0>>]}

ColumnEntry(t, c) == [table_schema |-> "public", table_name |-> t, column_name |-> c]

\* what information_schema.columns may hold
DbColumns ==
  {<<>>,
   <<ColumnEntry(tUsers, nId), ColumnEntry(tUsers, nInternalIdCap)>>,
   <<ColumnEntry(tSecretTableCap, nId)>>,
   <<ColumnEntry(tSecretTableCap, nId), ColumnEntry(tUsers, nPassword),
     ColumnEntry(tUsers, nInternalId)>>}

\* the answer to the columns query: with "AND table_name = $1" the rows of
\* that table only
ColumnAnswers(table) ==
  IF table = <<>> THEN DbColumns
  ELSE {cols \in DbColumns : \A i \in 1..Len(cols) : cols[i].table_name = table}

\* what information_schema.tables may hold
DbTables ==
  {<<>>,
   <<[table_schema |-> "public", table_name |-> tSecretTableCap, table_type |-> "BASE TABLE"],
     [table_schema |-> "public", table_name |-> tUsers, table_type |-> "BASE TABLE"]>>}

\* the errors pool.connect() rejects with
ConnectErrors == {[isError |-> TRUE, message |-> "connect ECONNREFUSED"]}

\* the TypeError of isQueryAllowed
IncludesIsNotAFunction ==
  [isError |-> TRUE, message |-> "allowedCommands.includes is not a function"]

\* the errors client.query() rejects with
QueryErrors == {[isError |-> TRUE, message |-> "relation does not exist"]}

\* the result of a refused statement
DeniedResult(cfg) ==
  [kind     |-> "denied",
   text     |-> "Query not allowed. Current level: ",
   level    |-> cfg.queryLevel,
   commands |-> cfg.allowedCommands]

\* a bug: the message of the error dropped
PostgresError_NoMessage(error) ==
  [kind |-> "dbError", text |-> "PostgreSQL error: ", message |-> ""]

\* the catch of executeQuery, getSchema and getTables
PostgresError(error) ==
  [kind    |-> "dbError",
   text    |-> "PostgreSQL error: ",
   message |-> error.message]

\* the catch of the tool handler
ToolError(error) ==
  IF error.isError
  THEN [kind |-> "error", text |-> "Error: ", message |-> error.message, isError |-> TRUE]
  ELSE [kind |-> "error", text |-> "Unknown error occurred", message |-> "", isError |-> TRUE]

\* the result of getSchema for a hidden table
HiddenResult(table) ==
  [kind  |-> "hidden",
   text  |-> "Table is hidden due to security settings.",
   table |-> table]

\* the success result of executeQuery: the masked rows, their count, and the
\* name and type of the visible fields
QuerySuccess(dbResult, cfg) ==
  LET r == maskSensitiveData(2, 1, cfg, ResultHeap(dbResult.fields, dbResult.patterns))
      maskedRows    == [k \in 1..Len(r.heap.rowArrays[r.rows]) |->
                          r.heap.rowObjs[r.heap.rowArrays[r.rows][k]]]
      visibleFields == r.heap.fieldArrays[r.fields]
  IN  [kind     |-> "rows",
       rows     |-> maskedRows,
       rowCount |-> Len(maskedRows),
       fields   |-> [i \in 1..Len(visibleFields) |->
                       [name |-> visibleFields[i].name, type |-> visibleFields[i].dataTypeID]]]

\* the success result of getSchema: the columns left by the filter of the mode
SchemaSuccess(table, rows, cfg) ==
  LET h == [EmptyHeap EXCEPT !.metaArrays = (1 :> rows)]
      r == IF table # <<>> THEN visibleColumns(1, cfg, h) ELSE visibleSchema(1, cfg, h)
  IN  [kind |-> "schema", schema |-> r.heap.metaArrays[r.ref]]

\* the success result of getTables
TablesSuccess(rows, cfg) ==
  LET r == filterTables(1, cfg, [EmptyHeap EXCEPT !.metaArrays = (1 :> rows)])
  IN  [kind |-> "tables", tables |-> r.heap.metaArrays[r.ref]]

\* no Pool yet and no request in progress
ServerStarted ==
  /\ PolicyIdle
  /\ FilterIdle
  /\ pool = NoPool
  /\ poolsCreated = 0
  /\ createdSinceReset = 0
  /\ returnedSinceReset = {}
  /\ checkedOut = 0
  /\ pc = [h \in Handlers |-> "idle"]
  /\ tool = [h \in Handlers |-> "none"]
  /\ reqSql = [h \in Handlers |-> <<>>]
  /\ reqTable = [h \in Handlers |-> <<>>]
  /\ reqAllowed = [h \in Handlers |-> FALSE]
  /\ acquired = [h \in Handlers |-> FALSE]
  /\ held = [h \in Handlers |-> FALSE]
  /\ released = [h \in Handlers |-> 0]
  /\ sent = [h \in Handlers |-> FALSE]
  /\ dbReply = [h \in Handlers |-> NoReply]
  /\ dbExecuted = {}
  /\ result = [h \in Handlers |-> NoResult]

Init ==
  /\ config \in {createConfig(e) : e \in HandlerEnvs}
  /\ ServerStarted

\* a call getPool(cfg): the module's pool after it, and the record of the
\* Pools constructed and returned
GetPoolCalled(cfg) ==
  /\ pool' = getPool(pool, cfg, poolsCreated + 1)
  /\ poolsCreated' = IF pool' # pool THEN poolsCreated + 1 ELSE poolsCreated
  /\ createdSinceReset' = IF pool' # pool THEN createdSinceReset + 1 ELSE createdSinceReset
  /\ returnedSinceReset' = returnedSinceReset \cup {pool'}

PoolKept == UNCHANGED <<pool, poolsCreated, createdSinceReset, returnedSinceReset>>

\* a query request arrives: the tool handler checks the argument, executeQuery
\* decides, and an allowed statement goes on to await pool.connect(); when
\* isQueryAllowed throws, the tool handler reports the error
CallQuery(h, s) ==
  /\ pc[h] = "idle"
  /\ tool' = [tool EXCEPT ![h] = "query"]
  /\ reqSql' = [reqSql EXCEPT ![h] = s]
  /\ IF s = <<>>
     THEN /\ result' = [result EXCEPT ![h] = [kind |-> "invalid", isError |-> TRUE]]
          /\ pc' = [pc EXCEPT ![h] = "done"]
          /\ UNCHANGED reqAllowed
          /\ PoolKept
     ELSE /\ reqAllowed' = [reqAllowed EXCEPT ![h] = isQueryAllowed(s, config)]
          /\ IF isQueryAllowedThrows(config)
             THEN /\ result' = [result EXCEPT ![h] = ToolError(IncludesIsNotAFunction)]
                  /\ pc' = [pc EXCEPT ![h] = "done"]
                  /\ PoolKept
             ELSE IF RefusesQuery(reqAllowed'[h])
             THEN /\ result' = [result EXCEPT ![h] = DeniedResult(config)]
                  /\ pc' = [pc EXCEPT ![h] = "done"]
                  /\ PoolKept
             ELSE /\ GetPoolCalled(config)
                  /\ pc' = [pc EXCEPT ![h] = "connect"]
                  /\ UNCHANGED result
  /\ UNCHANGED <<config, policyVars, filterVars, reqTable, acquired, held, released,
                 sent, dbReply, dbExecuted, checkedOut>>

\* a schema request arrives: getSchema gets the pool and awaits pool.connect()
CallSchema(h, t) ==
  /\ pc[h] = "idle"
  /\ tool' = [tool EXCEPT ![h] = "schema"]
  /\ reqTable' = [reqTable EXCEPT ![h] = t]
  /\ GetPoolCalled(config)
  /\ pc' = [pc EXCEPT ![h] = "connect"]
  /\ UNCHANGED <<config, policyVars, filterVars, reqSql, reqAllowed, acquired, held,
                 released, sent, dbReply, dbExecuted, checkedOut, result>>

\* a tables request arrives: getTables gets the pool and awaits pool.connect()
CallTables(h) ==
  /\ pc[h] = "idle"
  /\ tool' = [tool EXCEPT ![h] = "tables"]
  /\ GetPoolCalled(config)
  /\ pc' = [pc EXCEPT ![h] = "connect"]
  /\ UNCHANGED <<config, policyVars, filterVars, reqSql, reqTable, reqAllowed, acquired,
                 held, released, sent, dbReply, dbExecuted, checkedOut, result>>

\* pool.connect() yields a client.  getSchema, asked for a hidden table,
\* returns at once through its finally; otherwise the statement, or the
\* metadata query, is sent
Connected(h) ==
  /\ pc[h] = "connect"
  /\ acquired' = [acquired EXCEPT ![h] = TRUE]
  /\ IF tool[h] = "schema" /\ reqTable[h] # <<>> /\ isTableHidden(reqTable[h], config)
     THEN /\ result' = [result EXCEPT ![h] = HiddenResult(reqTable[h])]
          /\ released' = [released EXCEPT ![h] = release(@)]
          /\ held' = [held EXCEPT ![h] = released'[h] = 0]
          /\ checkedOut' = checkedOut + 1 - released'[h]
          /\ pc' = [pc EXCEPT ![h] = "done"]
          /\ UNCHANGED <<sent, dbExecuted>>
     ELSE /\ held' = [held EXCEPT ![h] = TRUE]
          /\ checkedOut' = checkedOut + 1
          /\ sent' = [sent EXCEPT ![h] = TRUE]
          /\ dbExecuted' = IF tool[h] = "query" THEN dbExecuted \cup {reqSql[h]} ELSE dbExecuted
          /\ pc' = [pc EXCEPT ![h] = "query"]
          /\ UNCHANGED <<result, released>>
  /\ UNCHANGED <<config, policyVars, filterVars, pool, poolsCreated, createdSinceReset,
                 returnedSinceReset, tool, reqSql, reqTable, reqAllowed, dbReply>>

\* pool.connect() fails: the function throws and the tool handler reports it
ConnectFails(h, error) ==
  /\ pc[h] = "connect"
  /\ dbReply' = [dbReply EXCEPT ![h] = [kind |-> "error", error |-> error]]
  /\ result' = [result EXCEPT ![h] = ToolError(error)]
  /\ pc' = [pc EXCEPT ![h] = "done"]
  /\ UNCHANGED <<config, policyVars, filterVars, pool, poolsCreated, createdSinceReset,
                 returnedSinceReset, tool, reqSql, reqTable, reqAllowed,
                 acquired, held, released, sent, dbExecuted, checkedOut>>

\* the finally of the three functions: the client goes back to the pool
ClientReleased(h) ==
  /\ released' = [released EXCEPT ![h] = release(@)]
  /\ held' = [held EXCEPT ![h] = released'[h] = 0]
  /\ checkedOut' = checkedOut - (released'[h] - released[h])

\* the database answers a statement: the result is masked and the client released
QueryReturns(h, dbResult) ==
  /\ pc[h] = "query" /\ tool[h] = "query"
  /\ dbReply' = [dbReply EXCEPT ![h] = [kind |-> "result", value |-> dbResult]]
  /\ result' = [result EXCEPT ![h] = QuerySuccess(dbResult, config)]
  /\ ClientReleased(h)
  /\ pc' = [pc EXCEPT ![h] = "done"]
  /\ UNCHANGED <<config, policyVars, filterVars, pool, poolsCreated, createdSinceReset,
                 returnedSinceReset, tool, reqSql, reqTable, reqAllowed,
                 acquired, sent, dbExecuted>>

\* the database answers the columns query: the rows are filtered and the
\* client released
SchemaReturns(h, rows) ==
  /\ pc[h] = "query" /\ tool[h] = "schema"
  /\ rows \in ColumnAnswers(reqTable[h])
  /\ dbReply' = [dbReply EXCEPT ![h] = [kind |-> "result", value |-> rows]]
  /\ result' = [result EXCEPT ![h] = SchemaSuccess(reqTable[h], rows, config)]
  /\ ClientReleased(h)
  /\ pc' = [pc EXCEPT ![h] = "done"]
  /\ UNCHANGED <<config, policyVars, filterVars, pool, poolsCreated, createdSinceReset,
                 returnedSinceReset, tool, reqSql, reqTable, reqAllowed,
                 acquired, sent, dbExecuted>>

\* the database answers the tables query: the rows are filtered and the
\* client released
TablesReturns(h, rows) ==
  /\ pc[h] = "query" /\ tool[h] = "tables"
  /\ dbReply' = [dbReply EXCEPT ![h] = [kind |-> "result", value |-> rows]]
  /\ result' = [result EXCEPT ![h] = TablesSuccess(rows, config)]
  /\ ClientReleased(h)
  /\ pc' = [pc EXCEPT ![h] = "done"]
  /\ UNCHANGED <<config, policyVars, filterVars, pool, poolsCreated, createdSinceReset,
                 returnedSinceReset, tool, reqSql, reqTable, reqAllowed,
                 acquired, sent, dbExecuted>>

\* the database rejects the statement or the metadata query: its error is
\* reported and the client released
QueryFails(h, error) ==
  /\ pc[h] = "query"
  /\ dbReply' = [dbReply EXCEPT ![h] = [kind |-> "error", error |-> error]]
  /\ result' = [result EXCEPT ![h] = PostgresError(error)]
  /\ ClientReleased(h)
  /\ pc' = [pc EXCEPT ![h] = "done"]
  /\ UNCHANGED <<config, policyVars, filterVars, pool, poolsCreated, createdSinceReset,
                 returnedSinceReset, tool, reqSql, reqTable, reqAllowed,
                 acquired, sent, dbExecuted>>

\* the result goes to the caller and the handler is ready for another request
Return(h) ==
  /\ pc[h] = "done"
  /\ pc' = [pc EXCEPT ![h] = "idle"]
  /\ tool' = [tool EXCEPT ![h] = "none"]
  /\ reqSql' = [reqSql EXCEPT ![h] = <<>>]
  /\ reqTable' = [reqTable EXCEPT ![h] = <<>>]
  /\ reqAllowed' = [reqAllowed EXCEPT ![h] = FALSE]
  /\ acquired' = [acquired EXCEPT ![h] = FALSE]
  /\ released' = [released EXCEPT ![h] = 0]
  /\ sent' = [sent EXCEPT ![h] = FALSE]
  /\ dbReply' = [dbReply EXCEPT ![h] = NoReply]
  /\ result' = [result EXCEPT ![h] = NoResult]
  /\ UNCHANGED <<config, policyVars, filterVars, pool, poolsCreated, createdSinceReset,
                 returnedSinceReset, held, dbExecuted, checkedOut>>

\* resetPool() is called (by a test): the module forgets its Pool
ResetPool ==
  /\ pool # NoPool
  /\ poolsCreated < MaxPools
  /\ pool' = resetPool(pool)
  /\ createdSinceReset' = 0
  /\ returnedSinceReset' = {}
  /\ UNCHANGED <<config, policyVars, filterVars, poolsCreated, pc, tool, reqSql, reqTable,
                 reqAllowed, acquired, held, released, sent, dbReply, dbExecuted,
                 checkedOut, result>>

\* the connection URLs of the configs other callers pass to getPool
OtherUrls == {"postgres://other"}

\* getPool is called with another config than the server's
GetPoolWith(url) ==
  /\ GetPoolCalled([config EXCEPT !.url = url])
  /\ UNCHANGED <<config, policyVars, filterVars, pc, tool, reqSql, reqTable,
                 reqAllowed, acquired, held, released, sent, dbReply, dbExecuted,
                 checkedOut, result>>

Next ==
  \/ \E h \in Handlers, s \in HandlerSql : CallQuery(h, s)
  \/ \E h \in Handlers, t \in HandlerTables : CallSchema(h, t)
  \/ \E h \in Handlers : CallTables(h)
  \/ \E h \in Handlers : Connected(h)
  \/ \E h \in Handlers, e \in ConnectErrors : ConnectFails(h, e)
  \/ \E h \in Handlers, r \in DbResults : QueryReturns(h, r)
  \/ \E h \in Handlers, rows \in DbColumns : SchemaReturns(h, rows)
  \/ \E h \in Handlers, rows \in DbTables : TablesReturns(h, rows)
  \/ \E h \in Handlers, e \in QueryErrors : QueryFails(h, e)
  \/ \E h \in Handlers : Return(h)

Spec == Init /\ [][Next]_vars

(***************************************************************************)
(* SpecPool: the server under its default configuration together with the  *)
(* other callers of database.ts: resetPool, and getPool with another       *)
(* config.                                                                 *)
(***************************************************************************)
InitPool ==
  /\ config = createConfig(DefaultEnv)
  /\ ServerStarted

NextPool ==
  \/ \E h \in Handlers : CallQuery(h, SqlSelectStarFromT)
  \/ \E h \in Handlers : CallSchema(h, <<>>)
  \/ \E h \in Handlers : CallTables(h)
  \/ \E h \in Handlers : Connected(h)
  \/ \E h \in Handlers, e \in ConnectErrors : ConnectFails(h, e)
  \/ \E h \in Handlers : QueryReturns(h, [fields |-> <<>>, patterns |-> <<>>])
  \/ \E h \in Handlers : SchemaReturns(h, <<>>)
  \/ \E h \in Handlers : TablesReturns(h, <<>>)
  \/ \E h \in Handlers, e \in QueryErrors : QueryFails(h, e)
  \/ \E h \in Handlers : Return(h)
  \/ ResetPool
  \/ \E url \in OtherUrls : GetPoolWith(url)

SpecPool == InitPool /\ [][NextPool]_vars

(***************************************************************************)
(* Properties of the access-level decision (SpecPolicy).                   *)
(***************************************************************************)
BuiltInLevels == {"readonly", "modify", "ddl"}

\* the commands a built-in level permits in effect
PermittedInEffect(level) ==
  CASE level = "readonly" -> {kwSELECT}
    [] level = "modify"   -> {kwSELECT, kwINSERT, kwUPDATE, kwDELETE}
    [] level = "ddl"      -> {kwSELECT, kwINSERT, kwUPDATE, kwDELETE,
                              kwCREATE, kwDROP, kwALTER, kwTRUNCATE}

AtLevel(level) == [config EXCEPT !.queryLevel = level]

\* C1: at readonly, modify and ddl a statement is allowed exactly when its
\* classified command is in the level's permitted set ({SELECT}; plus INSERT,
\* UPDATE, DELETE; plus CREATE, DROP, ALTER, TRUNCATE); SELECT * FROM t is
\* allowed and DELETE FROM t denied at readonly; what readonly allows modify
\* allows and what modify allows ddl allows; UNKNOWN, and so empty or blank
\* SQL, is denied at all three.
C1_BuiltInLevelsDecide ==
  (decided /\ config.queryLevel \in BuiltInLevels) =>
    /\ allowed <=> (command \in PermittedInEffect(config.queryLevel))
    /\ command = kwUNKNOWN => ~allowed
    /\ trim(sql) = <<>> => (command = kwUNKNOWN /\ ~allowed)
    /\ (sql = SqlSelectStarFromT /\ config.queryLevel = "readonly") =>
         (command = kwSELECT /\ allowed)
    /\ (sql = SqlDeleteFromT /\ config.queryLevel = "readonly") =>
         (command = kwDELETE /\ ~allowed)
    /\ isQueryAllowed(sql, AtLevel("readonly")) => isQueryAllowed(sql, AtLevel("modify"))
    /\ isQueryAllowed(sql, AtLevel("modify")) => isQueryAllowed(sql, AtLevel("ddl"))

\* C1 witness: DELETE FROM t has been decided, and denied, at readonly
C1_Witness ==
  /\ decided
  /\ config.queryLevel = "readonly"
  /\ sql = SqlDeleteFromT
  /\ command = kwDELETE
  /\ ~allowed

\* C2: at the custom level a statement is allowed exactly when its classified
\* command is in the configured allowedCommands; with {SELECT, EXPLAIN},
\* EXPLAIN ANALYZE t is allowed and INSERT INTO t VALUES (1) is denied.
C2_CustomLevelDecides ==
  (decided /\ config.queryLevel = "custom") =>
    /\ allowed <=> Includes(config.allowedCommands, command)
    /\ (config.allowedCommands = <<kwSELECT, kwEXPLAIN>> /\ sql = SqlExplainAnalyzeT) =>
         allowed
    /\ (config.allowedCommands = <<kwSELECT, kwEXPLAIN>> /\ sql = SqlInsertIntoT) =>
         ~allowed

\* the 17 commands of the vocabulary
Vocabulary ==
  {kwSELECT, kwINSERT, kwUPDATE, kwDELETE, kwCREATE, kwDROP, kwALTER, kwTRUNCATE,
   kwGRANT, kwREVOKE, kwBEGIN, kwCOMMIT, kwROLLBACK, kwEXPLAIN, kwANALYZE,
   kwVACUUM, kwCOPY}

\* the text without its comments
WithoutComments(s) == RemoveBlockComments(RemoveLineComments(s))

\* the characters of s from its first one that is no white space up to the
\* next white space
LeadingToken(s) ==
  LET start == {i \in 1..Len(s) : s[i] \notin WhiteSpace}
  IN  IF start = {} THEN <<>>
      ELSE LET from == Min(start)
               stop == {i \in from..Len(s) : s[i] \in WhiteSpace}
           IN  SubSeq(s, from, IF stop = {} THEN Len(s) ELSE Min(stop) - 1)

\* the leading keyword of a statement, upper-cased
LeadingKeyword(s) == toUpperCase(LeadingToken(WithoutComments(s)))

C20_WithAllowedAtBuiltInLevels ==
  /\ \A l \in BuiltInLevels : Includes(QUERY_LEVELS[l], kwWITH)
  /\ (decided /\ config.queryLevel \in BuiltInLevels /\ LeadingKeyword(sql) = kwWITH) =>
       allowed

KnownLevels == {"readonly", "modify", "ddl", "custom"}

\* C21: at a level name that is none of readonly, modify, ddl, custom the
\* decision is the one of readonly: the statement is allowed exactly when
\* readonly allows it, and so never when readonly denies it.
C21_UnknownLevelDecidesAsReadonly ==
  (decided /\ config.queryLevel \notin KnownLevels) =>
    /\ ~raised
    /\ allowed <=> isQueryAllowed(sql, AtLevel("readonly"))

(***************************************************************************)
(* Properties of masking and filtering (SpecFilter).                       *)
(***************************************************************************)
RowsAt(ref) == [k \in 1..Len(heap.rowArrays[ref]) |-> heap.rowObjs[heap.rowArrays[ref][k]]]

InFields == heap.fieldArrays[argFields]

InRows == RowsAt(argRows)

OutFields == heap.fieldArrays[maskRet.fields]

OutRows == RowsAt(maskRet.rows)

Masking == config.dataMasking

SensitiveNames == Masking.defaultSensitiveFields \cup Masking.customSensitiveFields

\* a field the masking leaves in the result: it has a name and is not hidden
ShownField(f) == f.name # <<>> /\ toLowerCase(f.name) \notin Masking.hiddenColumns

\* C4: a name that is, in any letter case, in hiddenColumns is never the name
\* of a returned field nor a key of a returned row, whatever the rows and the
\* fields, an empty rows list included.  Stated here for masking enabled, the
\* setting under which columns are hidden at all.
C4_HiddenColumnNeverReturned ==
  (maskCalls >= 1 /\ Masking.enabled) =>
    /\ \A i \in 1..Len(OutFields) :
         toLowerCase(OutFields[i].name) \notin Masking.hiddenColumns
    /\ \A k \in 1..Len(OutRows) : \A key \in DOMAIN OutRows[k] :
         toLowerCase(key) \notin Masking.hiddenColumns

\* C5: with masking enabled and at least one row, in every row a visible
\* sensitive field holds "***" when the original value is neither null nor
\* absent and the original null or absent value otherwise, and a visible
\* field that is not sensitive keeps its value.
C5_SensitiveValuesMasked ==
  (maskCalls >= 1 /\ Masking.enabled /\ Len(InRows) > 0) =>
    /\ Len(OutRows) = Len(InRows)
    /\ \A k \in 1..Len(InRows) : \A i \in 1..Len(InFields) :
         ShownField(InFields[i]) =>
           LET name == InFields[i].name
               old  == ReadProp(InRows[k], name)
               new  == ReadProp(OutRows[k], name)
           IN  IF toLowerCase(name) \in SensitiveNames
               THEN new = (IF old \in {Null, Undefined} THEN old ELSE MaskMarker)
               ELSE new = old

\* C5 witness: {id, password: "hunter2"} came back with password "***" and id
\* kept, and a row whose password is null came back with password null
C5_Witness ==
  /\ maskCalls >= 1 /\ Masking.enabled
  /\ InFields = <<[name |-> nId, dataTypeID |-> 25], [name |-> nPassword, dataTypeID |-> 25]>>
  /\ \E k \in 1..Len(InRows) :
       /\ InRows[k] = (nId :> "1" @@ nPassword :> "hunter2")
       /\ OutRows[k] = (nId :> "1" @@ nPassword :> MaskMarker)
  /\ \E k \in 1..Len(InRows) :
       /\ ReadProp(InRows[k], nId) # Undefined
       /\ ReadProp(InRows[k], nPassword) = Null
       /\ OutRows[k] = InRows[k]

\* the fields the claim calls visible: those that are not hidden
NotHiddenField(f) == ~isColumnHidden(f.name, config)

\* every field has a name and every row a key for every field, as in a
\* result of the database
WellFormedResult ==
  /\ \A i \in 1..Len(InFields) : InFields[i].name # <<>>
  /\ \A k \in 1..Len(InRows) :
       DOMAIN InRows[k] = {InFields[i].name : i \in 1..Len(InFields)}

\* C6: after every call the returned fields are the given fields restricted
\* to the visible (not hidden) ones, in their order, and the key set of every
\* returned row is the set of the visible field names.  Stated here for the
\* results a database returns.
C6_FieldsAndKeysAreTheVisible ==
  (maskCalls >= 1 /\ WellFormedResult) =>
    /\ OutFields = SelectSeq(InFields, NotHiddenField)
    /\ \A k \in 1..Len(OutRows) :
         DOMAIN OutRows[k] =
           {InFields[i].name : i \in {j \in 1..Len(InFields) : NotHiddenField(InFields[j])}}

\* C7: masking what masking returned, under the same policy, returns rows
\* and fields equal to the first result.
C7_MaskingIdempotent ==
  maskCalls = 2 =>
    /\ heap.fieldArrays[maskRet2.fields] = OutFields
    /\ RowsAt(maskRet2.rows) = OutRows

\* C7 witness: the first call dropped a column and masked a value, and the
\* result has been masked again
C7_Witness ==
  /\ maskCalls = 2
  /\ maskRet.rows # argRows
  /\ Len(OutFields) < Len(InFields)
  /\ \E k \in 1..Len(OutRows) : \E key \in DOMAIN OutRows[k] : OutRows[k][key] = MaskMarker

\* C8 as claimed: the very rows and fields given come back whenever masking is
\* disabled, or there are no rows, or no field is sensitive and none hidden,
\* also when a field has no name.
C8_OriginalsReturned ==
  (/\ maskCalls >= 1
   /\ \/ ~Masking.enabled
      \/ Len(InRows) = 0
      \/ \A i \in 1..Len(InFields) :
           /\ toLowerCase(InFields[i].name) \notin SensitiveNames
           /\ toLowerCase(InFields[i].name) \notin Masking.hiddenColumns)
  => (maskRet.rows = argRows /\ maskRet.fields = argFields)

\* C8 amended: the very rows and fields given come back whenever masking is
\* disabled, or there are no rows, or every field has a name and none is
\* sensitive or hidden.
C8_OriginalsReturnedWhenAllNamed ==
  (/\ maskCalls >= 1
   /\ \/ ~Masking.enabled
      \/ Len(InRows) = 0
      \/ \A i \in 1..Len(InFields) :
           /\ InFields[i].name # <<>>
           /\ toLowerCase(InFields[i].name) \notin SensitiveNames
           /\ toLowerCase(InFields[i].name) \notin Masking.hiddenColumns)
  => (maskRet.rows = argRows /\ maskRet.fields = argFields)

\* C8 witness: masking enabled, rows and fields present, every field named and
\* none sensitive or hidden, and the call returned what it was given
C8_Witness ==
  /\ maskCalls >= 1 /\ Masking.enabled
  /\ Masking.hiddenColumns # {}
  /\ Len(InRows) > 0 /\ Len(InFields) = MaxFields
  /\ \A i \in 1..Len(InFields) :
       /\ InFields[i].name # <<>>
       /\ toLowerCase(InFields[i].name) \notin SensitiveNames
       /\ toLowerCase(InFields[i].name) \notin Masking.hiddenColumns
  /\ maskRet.rows = argRows /\ maskRet.fields = argFields

\* every object of the heap is, after the step, what it was before it
HeapKept ==
  /\ \A r \in DOMAIN heap.rowObjs :
       r \in DOMAIN heap'.rowObjs /\ heap'.rowObjs[r] = heap.rowObjs[r]
  /\ \A r \in DOMAIN heap.rowArrays :
       r \in DOMAIN heap'.rowArrays /\ heap'.rowArrays[r] = heap.rowArrays[r]
  /\ \A r \in DOMAIN heap.fieldArrays :
       r \in DOMAIN heap'.fieldArrays /\ heap'.fieldArrays[r] = heap.fieldArrays[r]
  /\ \A r \in DOMAIN heap.metaArrays :
       r \in DOMAIN heap'.metaArrays /\ heap'.metaArrays[r] = heap.metaArrays[r]

\* a returned reference is the one given or one allocated by the step
GivenOrNew(ret, given) == ret = given \/ ret \notin UsedRefs(heap)

\* C9: no call of maskSensitiveData, filterTables or a schema filter changes
\* an array, a row or the configuration it was given; a result that differs
\* from the input is made of newly built arrays and rows.
C9_InputsNeverModified ==
  [][/\ HeapKept
     /\ config' = config
     /\ maskCalls' = 1 =>
          /\ GivenOrNew(maskRet'.rows, argRows)
          /\ GivenOrNew(maskRet'.fields, argFields)
          /\ maskRet'.rows # argRows =>
               \A k \in 1..Len(heap'.rowArrays[maskRet'.rows]) :
                 heap'.rowArrays[maskRet'.rows][k] \notin UsedRefs(heap)
     /\ metaOp' # metaOp => GivenOrNew(metaRet', argMeta)]_vars

\* C9 witness: a call returned masked copies and the rows given to it still
\* hold the unmasked value
C9_Witness ==
  /\ maskCalls >= 1
  /\ maskRet.rows # argRows
  /\ \E k \in 1..Len(InRows) :
       /\ ReadProp(InRows[k], nPassword) = "hunter2"
       /\ ReadProp(OutRows[k], nPassword) = MaskMarker

InTables == heap.metaArrays[argMeta]

OutTables == heap.metaArrays[metaRet]

TableEntry(n) == [table_schema |-> "public", table_name |-> n, table_type |-> "BASE TABLE"]

ShownTable(t) == toLowerCase(t.table_name) \notin Masking.hiddenTables

\* C10: filterTables returns the list it was given when masking is disabled,
\* hiddenTables is empty or the list is empty; otherwise the entries, in
\* order, whose lower-cased table_name is not in hiddenTables: with
\* {secret_table} hidden, [users, secret_table] gives [users], and an entry
\* named SECRET_TABLE is removed as well.
C10_FilterTables ==
  metaOp = "filterTables" =>
    /\ IF ~Masking.enabled \/ Masking.hiddenTables = {} \/ InTables = <<>>
       THEN metaRet = argMeta
       ELSE OutTables = SelectSeq(InTables, ShownTable)
    /\ (Masking.enabled /\ Masking.hiddenTables = {tSecretTable}) =>
         /\ InTables = <<TableEntry(tUsers), TableEntry(tSecretTable)>> =>
              OutTables = <<TableEntry(tUsers)>>
         /\ \A i \in 1..Len(OutTables) : OutTables[i].table_name # tSecretTableCap

\* C10 witness: with secret_table hidden, [users, SECRET_TABLE] was filtered
\* to [users]
C10_Witness ==
  /\ metaOp = "filterTables"
  /\ Masking.enabled /\ Masking.hiddenTables = {tSecretTable}
  /\ InTables = <<TableEntry(tUsers), TableEntry(tSecretTableCap)>>
  /\ OutTables = <<TableEntry(tUsers)>>
  /\ metaRet # argMeta

\* the default masked fields as the README lists them
ReadmeMaskedFields ==
  defaultSensitiveFields \cup
    {nEmail, <<"p", "h", "o", "n", "e">>, <<"a", "d", "d", "r", "e", "s", "s">>}

\* C16: with the default configuration (masking enabled, nothing hidden, no
\* custom sensitive fields) the value of a column named email, phone or
\* address comes back as "***", like the value of password, secret, token and
\* the other default masked fields of the README.
C16_ReadmeFieldsMasked ==
  (/\ maskCalls >= 1 /\ Masking.enabled
   /\ Masking.hiddenColumns = {} /\ Masking.customSensitiveFields = {}) =>
    \A k \in 1..Len(InRows) : \A i \in 1..Len(InFields) :
      (/\ toLowerCase(InFields[i].name) \in ReadmeMaskedFields
       /\ ReadProp(InRows[k], InFields[i].name) \notin {Null, Undefined}) =>
        ReadProp(OutRows[k], InFields[i].name) = MaskMarker

Named(f) == f.name # <<>>

\* what the call returns for the same rows and the field list without its
\* entries that have no name
MaskedWithoutMalformed ==
  LET r == maskSensitiveData(argRows, argFields, config,
             [heap EXCEPT !.fieldArrays[argFields] = SelectSeq(@, Named)])
  IN  [fields |-> r.heap.fieldArrays[r.fields],
       rows   |-> [k \in 1..Len(r.heap.rowArrays[r.rows]) |->
                     r.heap.rowObjs[r.heap.rowArrays[r.rows][k]]]]

\* C17: a field descriptor without a name gives no returned field and no row
\* key, and every other field is hidden, masked or passed through as it is
\* for the list without that descriptor.  Stated here for masking enabled.
C17_MalformedFieldSkipped ==
  (/\ maskCalls >= 1 /\ Masking.enabled
   /\ \E i \in 1..Len(InFields) : ~Named(InFields[i])) =>
    /\ \A i \in 1..Len(OutFields) : Named(OutFields[i])
    /\ \A k \in 1..Len(OutRows) : <<>> \notin DOMAIN OutRows[k]
    /\ OutFields = MaskedWithoutMalformed.fields
    /\ Len(OutRows) = Len(MaskedWithoutMalformed.rows)
    /\ \A k \in 1..Len(OutRows) : \A i \in 1..Len(InFields) :
         Named(InFields[i]) =>
           ReadProp(OutRows[k], InFields[i].name) =
             ReadProp(MaskedWithoutMalformed.rows[k], InFields[i].name)

(***************************************************************************)
(* Properties of the tools (Spec) and of the pool (SpecPool).              *)
(***************************************************************************)
\* C3: a statement reaches the database only if isQueryAllowed returned true
\* for it; a denied statement yields the "Query not allowed" result, and its
\* handler neither obtains a client from the pool nor sends anything.
C3_ExecutedOnlyIfAllowed ==
  /\ \A s \in dbExecuted : isQueryAllowed(s, config)
  /\ \A h \in Handlers :
       /\ (/\ tool[h] = "query"
           /\ sent[h] \/ acquired[h] \/ held[h] \/ pc[h] \in {"connect", "query"}) =>
            reqAllowed[h]
       /\ (/\ pc[h] = "done" /\ reqSql[h] # <<>>
           /\ ~reqAllowed[h] /\ ~isQueryAllowedThrows(config)) =>
            result[h].kind = "denied"
       /\ result[h].kind = "denied" =>
            /\ ~reqAllowed[h] /\ ~acquired[h] /\ ~held[h] /\ ~sent[h]
            /\ reqSql[h] \notin dbExecuted

\* C3 witness: DELETE FROM t was denied to one handler, with nothing acquired
\* or sent, while the database has executed another handler's statement
C3_Witness ==
  \E h \in Handlers :
    /\ pc[h] = "done"
    /\ reqSql[h] = SqlDeleteFromT
    /\ result[h].kind = "denied"
    /\ ~acquired[h] /\ ~sent[h]
    /\ SqlSelectStarFromT \in dbExecuted

\* a schema request for a table that is hidden: named, masking enabled, and
\* the name, in any letter case, in hiddenTables
HiddenRequest(h) ==
  /\ tool[h] = "schema" /\ reqTable[h] # <<>>
  /\ Masking.enabled
  /\ toLowerCase(reqTable[h]) \in Masking.hiddenTables

\* C11 as claimed: a schema request naming a hidden table returns the "table
\* is hidden" result, never a column list, and no columns query is sent for
\* it, whatever happens on the way.
C11_HiddenTableShortCircuits ==
  \A h \in Handlers :
    /\ HiddenRequest(h) =>
         /\ ~sent[h] /\ pc[h] # "query" /\ dbReply[h].kind # "result"
         /\ pc[h] = "done" =>
              /\ result[h].kind = "hidden" /\ result[h].table = reqTable[h]
              /\ "schema" \notin DOMAIN result[h]
    /\ result[h].kind = "hidden" => HiddenRequest(h)

\* C11 amended: a schema request naming a hidden table sends no columns
\* query; once pool.connect() has given it a client it returns the "table is
\* hidden" result, never a column list; when pool.connect() fails it ends
\* with the connection error instead, the hidden check coming after the
\* connect.
C11_HiddenTableShortCircuitsOnceConnected ==
  \A h \in Handlers :
    /\ HiddenRequest(h) =>
         /\ ~sent[h] /\ pc[h] # "query" /\ dbReply[h].kind # "result"
         /\ (pc[h] = "done" /\ acquired[h]) =>
              /\ result[h].kind = "hidden" /\ result[h].table = reqTable[h]
              /\ "schema" \notin DOMAIN result[h]
         /\ (pc[h] = "done" /\ ~acquired[h]) =>
              /\ result[h].kind = "error"
              /\ result[h].message = dbReply[h].error.message
    /\ result[h].kind = "hidden" => HiddenRequest(h)

\* C11 witness: the schema of SECRET_TABLE was asked with secret_table
\* hidden, and the hidden result came back with nothing sent to the database
C11_Witness ==
  \E h \in Handlers :
    /\ HiddenRequest(h) /\ reqTable[h] = tSecretTableCap
    /\ pc[h] = "done" /\ acquired[h] /\ ~sent[h]
    /\ result[h].kind = "hidden"

HiddenMetaRow(row) ==
  \/ toLowerCase(row.table_name) \in Masking.hiddenTables
  \/ toLowerCase(row.column_name) \in Masking.hiddenColumns

ShownMetaRow(row) == ~HiddenMetaRow(row)

ShownColumn(row) == toLowerCase(row.column_name) \notin Masking.hiddenColumns

\* the rows the claim has the schema tool return for the fetched ones
SchemaAsClaimed(h) ==
  IF reqTable[h] = <<>>
  THEN SelectSeq(dbReply[h].value, ShownMetaRow)
  ELSE SelectSeq(dbReply[h].value, ShownColumn)

\* C12 as claimed: the schema tool returns, in whole-database mode, the
\* fetched rows without those whose table_name is in hiddenTables or whose
\* column_name is in hiddenColumns and, for one table, the table's rows
\* without those whose column_name is in hiddenColumns, the others in order;
\* whatever the masking switch.
C12_SchemaFiltered ==
  \A h \in Handlers :
    result[h].kind = "schema" => result[h].schema = SchemaAsClaimed(h)

\* C12 amended: with masking enabled the schema tool returns the fetched rows
\* without the hidden ones, as claimed; with masking disabled it returns
\* every fetched row.
C12_SchemaFilteredWhenMaskingEnabled ==
  \A h \in Handlers :
    result[h].kind = "schema" =>
      /\ Masking.enabled =>
           /\ result[h].schema = SchemaAsClaimed(h)
           /\ \A i \in 1..Len(result[h].schema) : ~HiddenMetaRow(result[h].schema[i])
      /\ ~Masking.enabled => result[h].schema = dbReply[h].value

\* C12 witness: of three fetched rows, one of SECRET_TABLE and one of column
\* internal_id, only users.password came back; and a request for users got
\* its visible column alone
C12_Witness ==
  \E h1, h2 \in Handlers :
    /\ Masking.enabled
    /\ result[h1].kind = "schema" /\ reqTable[h1] = <<>>
    /\ Len(dbReply[h1].value) = 3
    /\ result[h1].schema = <<ColumnEntry(tUsers, nPassword)>>
    /\ result[h2].kind = "schema" /\ reqTable[h2] = tUsers
    /\ result[h2].schema = <<ColumnEntry(tUsers, nId)>>

\* the place of a character in the order of the sort
CharRank(c) ==
  IF \E i \in 1..26 : UpperLetters[i] = c
  THEN CHOOSE i \in 1..26 : UpperLetters[i] = c
  ELSE 0

\* a comes before b, or is b, in that order
RECURSIVE WordLeq(_, _)
WordLeq(a, b) ==
  IF a = <<>> THEN TRUE
  ELSE IF b = <<>> THEN FALSE
  ELSE IF CharRank(a[1]) # CharRank(b[1]) THEN CharRank(a[1]) < CharRank(b[1])
  ELSE WordLeq(Tail(a), Tail(b))

\* list is the sorted list of the members of set
IsSortedListOf(list, set) ==
  /\ SetOf(list) = set
  /\ Len(list) = Cardinality(set)
  /\ \A i \in 1..(Len(list) - 1) : WordLeq(list[i], list[i + 1])

\* the commands the decision is made against
CommandsOfLevel(level) ==
  IF level \in DOMAIN QUERY_LEVELS THEN SetOf(QUERY_LEVELS[level])
  ELSE SetOf(QUERY_LEVELS.readonly)

\* C14: a denied query's result names the active level and lists, sorted,
\* the commands that level permits, the set the decision was made against, at
\* every level.
C14_DenialNamesLevelCommands ==
  \A h \in Handlers :
    result[h].kind = "denied" =>
      /\ result[h].level = config.queryLevel
      /\ IsSortedListOf(result[h].commands, CommandsOfLevel(config.queryLevel))

TextOf(r) == IF "text" \in DOMAIN r THEN r.text ELSE ""

DenialText == "Query not allowed. Current level: "

FailureTexts == {"PostgreSQL error: ", "Error: "}

\* C15: when pool.connect() or client.query() fails, in any of the three
\* tools, the result carries the error message of the database and is no
\* denial; a denial carries no database error; the two results differ.
C15_FailuresAndDenialsDistinct ==
  \A h \in Handlers :
    /\ dbReply[h].kind = "error" =>
         /\ TextOf(result[h]) \in FailureTexts
         /\ result[h].message = dbReply[h].error.message
         /\ result[h].kind # "denied"
    /\ (/\ pc[h] = "done" /\ tool[h] = "query" /\ reqSql[h] # <<>>
        /\ ~reqAllowed[h] /\ ~isQueryAllowedThrows(config)) =>
         /\ TextOf(result[h]) = DenialText
         /\ dbReply[h].kind = "none"
    /\ TextOf(result[h]) = DenialText => dbReply[h].kind = "none"
    /\ TextOf(result[h]) \in FailureTexts =>
         \/ dbReply[h].kind = "error"
         \/ result[h] = ToolError(IncludesIsNotAFunction)
    /\ \A g \in Handlers :
         (dbReply[h].kind = "error" /\ result[g].kind = "denied") => result[h] # result[g]

\* C15 witness: one request ended with the error of the database, another
\* was denied
C15_Witness ==
  \E h, g \in Handlers :
    /\ tool[h] = "query" /\ pc[h] = "done" /\ dbReply[h].kind = "error" /\ sent[h]
    /\ result[h].message = "relation does not exist"
    /\ pc[g] = "done" /\ result[g].kind = "denied"

\* C18: a client obtained from pool.connect() is released exactly once
\* before its handler returns, after success, after an error of the database
\* and after the hidden-table return of getSchema; when no handler is between
\* its connect and its return, no client is out of the pool.
C18_ClientReleasedOnce ==
  /\ \A h \in Handlers :
       /\ released[h] <= 1
       /\ held[h] <=> (acquired[h] /\ released[h] = 0)
       /\ held[h] => pc[h] = "query"
       /\ pc[h] = "done" => released[h] = (IF acquired[h] THEN 1 ELSE 0)
  /\ checkedOut = Cardinality({h \in Handlers : held[h]})
  /\ (\A h \in Handlers : pc[h] \in {"idle", "done"}) => checkedOut = 0

\* C18 witness: a hidden-table request and a request the database rejected
\* have both ended, each with its client released once
C18_Witness ==
  \E h, g \in Handlers :
    /\ pc[h] = "done" /\ result[h].kind = "hidden" /\ acquired[h] /\ released[h] = 1
    /\ pc[g] = "done" /\ result[g].kind = "dbError" /\ acquired[g] /\ released[g] = 1
    /\ checkedOut = 0

\* C19: between two resets at most one Pool is constructed, and every getPool
\* call since the last reset returned that one, the module's pool, whatever
\* config it passed; after a reset the next getPool constructs a new Pool.
C19_OnePoolBetweenResets ==
  /\ createdSinceReset <= 1
  /\ returnedSinceReset \subseteq {pool}
  /\ returnedSinceReset # {} => (pool # NoPool /\ createdSinceReset = 1)
  /\ pool = NoPool => (createdSinceReset = 0 /\ returnedSinceReset = {})
  /\ pool # NoPool => pool.id = poolsCreated

\* C19 witness: after a reset, getPool calls with different configs, by
\* handlers now awaiting the database and by another caller, all got the
\* second Pool
C19_Witness ==
  /\ poolsCreated = 2 /\ createdSinceReset = 1
  /\ pool.connectionString = "postgres://other"
  /\ returnedSinceReset = {pool}
  /\ \A h \in Handlers : pc[h] = "connect"

=============================================================================
